---- MODULE Spec2Model ----
(***************************************************************************)
(* GeoJourney: content-addressed archival and deduplication.               *)
(*                                                                         *)
(*   organize_photos         src/photo-organizer.py                        *)
(*   organize_videos         src/video-organizer.py                        *)
(*   remove_duplicate_files  src/remove_duplicates.py                      *)
(*                                                                         *)
(* A file name is a sequence of one-character strings, a path is a record  *)
(* [root, dir, name] (dir a sequence of names), and the file system fs is  *)
(* a function from the existing paths to the files stored there.           *)
(***************************************************************************)
EXTENDS Integers, Sequences, FiniteSets, TLC

VARIABLES
    fs,            \* the file tree: existing path -> file
    dirs,          \* directories made by mkdir(parents=True, exist_ok=True)
    fs0,           \* history: the file tree before the run
    source,        \* source_folder / root_folder of the run
    files,         \* list(source.rglob('*'))
    idx,           \* position of the for loop in files
    pc,            \* position of the run in the code
    file_path,     \* the loop variable
    target_file,   \* the canonical path computed for file_path
    used_exif,     \* whether the date came from the metadata
    src_size,      \* file_path.stat().st_size
    dst_size,      \* target_file.stat().st_size
    counters,      \* analyzed, moved, replaced, removed_src, skipped_*
    outcome,       \* history: how the last analyzed item ended
    src_before,    \* history: the incoming file when the conflict was seen
    dst_before,    \* history: the file at the canonical path at that time
    all_files,     \* sweep: list(root.rglob('*'))
    files_by_hash, \* sweep: the groups, in dict insertion order
    grp,           \* sweep: position of the loop over the groups
    to_move,       \* sweep: the files of the current group still to move
    total_moved,   \* sweep: counter
    total_kept,    \* sweep: counter
    run,           \* sweep: 1 in the first run, 2 in the run over its result
    fs_first,      \* history: the file tree when the second run started
    nm_in,         \* names: the (seconds, millis, separator, hash, ext) drawn
    nm_name,       \* names: the file name built from nm_in
    nm_parsed,     \* names: what the two extract_ functions returned
    writers,       \* two concurrent runs: each one's position, item and counts
    raced          \* history: both have seen one canonical path free at once

fsVars    == <<fs, dirs, fs0, source>>
runVars   == <<files, idx, pc, file_path, target_file, used_exif, src_size,
               dst_size, counters, outcome, src_before, dst_before>>
sweepVars == <<all_files, files_by_hash, grp, to_move, total_moved, total_kept,
               run, fs_first>>
nameVars  == <<nm_in, nm_name, nm_parsed>>
raceVars  == <<writers, raced>>
vars      == <<fsVars, runVars, sweepVars, nameVars, raceVars>>

(***************************************************************************)
(* Bounds of the model.                                                    *)
(***************************************************************************)
MaxSize  == 2      \* file sizes are 1..MaxSize
MaxEpoch == 10     \* epoch seconds are 0..MaxEpoch
MaxSrc   == 2      \* files under the source root of a placement run
MaxSweep == 3      \* files under the archive root of a sweep

Sizes  == 1..MaxSize
Epochs == 0..MaxEpoch

(***************************************************************************)
(* Strings.                                                                *)
(***************************************************************************)
DigitChars == <<"0", "1", "2", "3", "4", "5", "6", "7", "8", "9">>

\* str(n) of a Python int
RECURSIVE Str(_)
Str(n) ==
    IF n < 0 THEN <<"-">> \o Str(-n)
    ELSE IF n < 10 THEN <<DigitChars[n + 1]>>
    ELSE Str(n \div 10) \o <<DigitChars[(n % 10) + 1]>>

\* f"{ms}": no padding
NoPad(n) == Str(n)

\* f"{ms:03d}" for ms >= 0: zero-padded to at least three digits
Pad3(n) ==
    LET s == Str(n)
    IN  IF Len(s) >= 3 THEN s
        ELSE IF Len(s) = 2 THEN <<"0">> \o s
        ELSE <<"0", "0">> \o s

\* ord(c) order of the characters the names use (ASCII)
CharOrd(c) ==
    CASE c = "-" -> 45 [] c = "." -> 46
      [] c = "0" -> 48 [] c = "1" -> 49 [] c = "2" -> 50 [] c = "3" -> 51
      [] c = "4" -> 52 [] c = "5" -> 53 [] c = "6" -> 54 [] c = "7" -> 55
      [] c = "8" -> 56 [] c = "9" -> 57
      [] c = "G" -> 71 [] c = "I" -> 73 [] c = "J" -> 74 [] c = "M" -> 77
      [] c = "P" -> 80
      [] c = "_" -> 95
      [] c = "a" -> 97 [] c = "b" -> 98 [] c = "d" -> 100 [] c = "e" -> 101
      [] c = "f" -> 102 [] c = "g" -> 103 [] c = "i" -> 105 [] c = "j" -> 106
      [] c = "m" -> 109
      [] c = "n" -> 110 [] c = "o" -> 111 [] c = "p" -> 112 [] c = "r" -> 114
      [] c = "s" -> 115 [] c = "t" -> 116 [] c = "v" -> 118 [] c = "x" -> 120
      [] OTHER -> 127

\* str.lower() on one character
LowerChar(c) ==
    CASE c = "G" -> "g" [] c = "I" -> "i" [] c = "J" -> "j" [] c = "M" -> "m"
      [] c = "P" -> "p" [] OTHER -> c

Lower(s) == [i \in 1..Len(s) |-> LowerChar(s[i])]

\* c in s
Contains(s, c) == \E i \in 1..Len(s) : s[i] = c

\* s.find(c) + 1: the first position of c in s, 0 when there is none
FirstIndex(s, c) ==
    IF Contains(s, c)
    THEN CHOOSE i \in 1..Len(s) : s[i] = c /\ \A j \in 1..(i - 1) : s[j] # c
    ELSE 0

\* s.rfind(c) + 1
LastIndex(s, c) ==
    IF Contains(s, c)
    THEN CHOOSE i \in 1..Len(s) : s[i] = c /\ \A j \in (i + 1)..Len(s) : s[j] # c
    ELSE 0

\* s.split(c, 1)
SplitOnce(s, c) ==
    LET i == FirstIndex(s, c)
    IN  IF i = 0 THEN <<s>>
        ELSE <<SubSeq(s, 1, i - 1), SubSeq(s, i + 1, Len(s))>>

\* pathlib's PurePath.suffix: from the last dot, unless the name starts or
\* ends with it
Suffix(name) ==
    LET i == LastIndex(name, ".")
    IN  IF 1 < i /\ i < Len(name) THEN SubSeq(name, i, Len(name)) ELSE <<>>

\* pathlib's PurePath.stem
Stem(name) ==
    LET i == LastIndex(name, ".")
    IN  IF 1 < i /\ i < Len(name) THEN SubSeq(name, 1, i - 1) ELSE name

\* Python's None, as a value no name equals
None == <<"None">>

\* not x, for x a str or None
Falsy(x) == x = None \/ x = <<>>

\* the parts both extract_ functions compute from the stem
NameParts(name) ==
    IF Contains(name, "_") THEN SplitOnce(name, "_")
    ELSE IF Contains(name, "-") THEN SplitOnce(name, "-")
    ELSE <<name>>

extract_hash_from_filename(filename) ==
    LET parts == NameParts(Stem(filename))
    IN  IF Len(parts) = 2 THEN parts[2] ELSE None

extract_timestamp_from_filename(filename) ==
    LET parts == NameParts(Stem(filename))
    IN  IF Len(parts) = 2 THEN parts[1] ELSE None

\* str < str of Python: lexicographic by code point
RECURSIVE StrLess(_, _)
StrLess(a, b) ==
    IF b = <<>> THEN FALSE
    ELSE IF a = <<>> THEN TRUE
    ELSE IF a[1] # b[1] THEN CharOrd(a[1]) < CharOrd(b[1])
    ELSE StrLess(Tail(a), Tail(b))

\* int(s) of a string of digits
RECURSIVE DigitsValue(_)
DigitsValue(s) ==
    IF s = <<>> THEN 0
    ELSE 10 * DigitsValue(SubSeq(s, 1, Len(s) - 1))
         + ((CHOOSE d \in 1..10 : DigitChars[d] = s[Len(s)]) - 1)

IsDigits(s) ==
    /\ s # <<>>
    /\ \A i \in 1..Len(s) : \E d \in 1..10 : DigitChars[d] = s[i]

(***************************************************************************)
(* The canonical file name.                                                *)
(***************************************************************************)
EXT_JPG == <<".", "j", "p", "g">>
EXT_MP4 == <<".", "m", "p", "4">>
EXT_TXT == <<".", "t", "x", "t">>

\* the part of SUPPORTED_EXTENSIONS / SUPPORTED_VIDEO_EXTENSIONS the model uses
SUPPORTED_EXTENSIONS       == {EXT_JPG}
SUPPORTED_VIDEO_EXTENSIONS == {EXT_MP4}

\* f"{timestamp_s}{ms:03d}-{image_hash}{ext}"
PhotoName(timestamp_s, ms, image_hash, ext) ==
    Str(timestamp_s) \o Pad3(ms) \o <<"-">> \o image_hash \o ext

\* f"{timestamp_s}{ms:03d}_{video_hash}{ext}"
VideoName(timestamp_s, ms, video_hash, ext) ==
    Str(timestamp_s) \o Pad3(ms) \o <<"_">> \o video_hash \o ext

(***************************************************************************)
(* Files and paths.                                                        *)
(***************************************************************************)
Path(root, dir, name) == [root |-> root, dir |-> dir, name |-> name]

NoPath == Path("", <<>>, <<>>)

A_JPG == <<"a">> \o EXT_JPG
V_MP4 == <<"v">> \o EXT_MP4
N_TXT == <<"n">> \o EXT_TXT
SUB   == <<"s">>

DATE          == <<"d", "a", "t", "e">>
NO_DATE       == <<"n", "o", "-", "d", "a", "t", "e">>
VIDEO_DATE    == <<"v", "i", "d", "e", "o", "-", "d", "a", "t", "e">>
VIDEO_NO_DATE == <<"v", "i", "d", "e", "o", "-", "n", "o", "-", "d", "a", "t", "e">>
ERRORS        == <<"e", "r", "r", "o", "r", "s">>

\* the fingerprints the model draws (hex digests)
Hashes == {<<"a", "f">>}

\* a date field of the metadata: a string strptime parses (to the epoch
\* second it denotes), a string it rejects with ValueError, or a JSON number
\* (strptime raises TypeError for an int)
DateField(seconds) == [kind |-> "date", seconds |-> seconds]
TextField          == [kind |-> "text", seconds |-> 0]
NumberField        == [kind |-> "number", seconds |-> 0]

\* st_mtime is a double: at the epoch seconds of today (2^30 .. 2^31) its
\* fraction is a multiple of 2^-22 s, and mtime_frac counts these
FracUnit == 4194304

\* what a file is to the pipelines: its size, the date fields its metadata
\* holds (in the order the pipeline looks them up; the fields not listed are
\* absent) with the raw SubSecTime field, its modification time (whole
\* seconds and fraction), and the hash its content has (None:
\* generate_image_hash returns None for it)
File(origin, size, dates, subsec, mtime, mtime_frac, hash) ==
    [origin |-> origin, size |-> size, dates |-> dates, subsec |-> subsec,
     mtime |-> mtime, mtime_frac |-> mtime_frac, hash |-> hash]

MkFile(origin, size, has_exif, hash) ==
    File(origin, size, IF has_exif THEN <<DateField(MaxEpoch)>> ELSE <<>>,
         None, MaxEpoch, 0, hash)

NoFile == MkFile(NoPath, 0, FALSE, None)

\* shutil.move(src, dst) that succeeds: os.rename, which replaces dst
Move(f, src, dst) ==
    IF src = dst THEN f
    ELSE [p \in (DOMAIN f \ {src}) \cup {dst} |->
            IF p = dst THEN f[src] ELSE f[p]]

\* Path.unlink() that succeeds
Unlink(f, p) == [q \in DOMAIN f \ {p} |-> f[q]]

\* the files rglob('*') finds under a root, and the orders it may list them in
TreeOf(f, root) == {p \in DOMAIN f : p.root = root}

Perms(S) ==
    {s \in [1..Cardinality(S) -> S] :
        \A i, j \in 1..Cardinality(S) : i # j => s[i] # s[j]}

(***************************************************************************)
(* organize_photos: the pure parts.                                        *)
(***************************************************************************)
\* str(subsec).ljust(3, '0')[:3]
LJust3(s) ==
    SubSeq(s \o (IF Len(s) < 3 THEN [i \in 1..(3 - Len(s)) |-> "0"] ELSE <<>>), 1, 3)

\* ms of extract_date: int() of the padded SubSecTime, 0 when int() raises
SubSecMs(subsec) ==
    IF subsec = None THEN 0
    ELSE IF IsDigits(LJust3(subsec)) THEN DigitsValue(LJust3(subsec))
    ELSE 0

\* the loop over the date fields: the first one that parses is returned, one
\* that strptime rejects with ValueError is passed over, and a TypeError is
\* not caught
RECURSIVE DateScan(_)
DateScan(dates) ==
    IF dates = <<>> THEN <<"none", 0>>
    ELSE IF Head(dates).kind = "date" THEN <<"found", Head(dates).seconds>>
    ELSE IF Head(dates).kind = "number" THEN <<"raise", 0>>
    ELSE DateScan(Tail(dates))

\* extract_date(metadata) raises
extract_date_raises(f) == DateScan(f.dates)[1] = "raise"

\* extract_date(metadata): <<found, seconds, ms>>
extract_date(f) ==
    IF DateScan(f.dates)[1] = "found"
    THEN <<TRUE, DateScan(f.dates)[2], SubSecMs(f.subsec)>>
    ELSE <<FALSE, 0, 0>>

\* round(n / d) to the nearest integer, a tie to the even one
RoundHalfEven(n, d) ==
    LET q == n \div d
        r == n % d
    IN  IF 2 * r < d THEN q
        ELSE IF 2 * r > d THEN q + 1
        ELSE IF q % 2 = 0 THEN q ELSE q + 1

\* the microsecond of datetime.fromtimestamp(st_mtime): the fraction times
\* 10^6, rounded half to even (10^6 / 2^22 = 15625 / 65536)
MtimeMicros(f) ==
    (f.mtime_frac \div 65536) * 15625
    + RoundHalfEven((f.mtime_frac % 65536) * 15625, 65536)

\* int(datetime.fromtimestamp(st_mtime).timestamp()): a microsecond that
\* rounds up to 10^6 goes into the second
MtimeSeconds(f) == IF MtimeMicros(f) >= 1000000 THEN f.mtime + 1 ELSE f.mtime

\* int((st_mtime - int(st_mtime)) * 1000)  (1000 / 2^22 = 125 / 524288)
MtimeMs(f) == (f.mtime_frac * 125) \div 524288

\* photo_date and ms after the fallback to st_mtime
PhotoDate(f) ==
    IF extract_date(f)[1] THEN <<extract_date(f)[2], extract_date(f)[3]>>
    ELSE <<MtimeSeconds(f), MtimeMs(f)>>

\* year / month / day of the date, as one directory per day
DayDir(seconds) == Str(seconds \div 86400)

\* target_folder of organize_photos
PhotoFolder(f, exif_used) ==
    <<IF exif_used THEN DATE ELSE NO_DATE, DayDir(PhotoDate(f)[1])>>

\* target_file of organize_photos for the file f found at path p
PhotoTarget(f, p, exif_used) ==
    Path("out", PhotoFolder(f, exif_used),
         PhotoName(PhotoDate(f)[1], PhotoDate(f)[2], f.hash, Lower(Suffix(p.name))))

\* a comparison that also replaces a file of the same size
SrcLargerOrEqual(s, d) == s >= d

\* the comparison turned round
SrcSmaller(s, d) == s < d

\* src_size > dst_size
SrcLarger(s, d) == s > d

(***************************************************************************)
(* The trees a placement run starts from.                                  *)
(***************************************************************************)
SrcPaths(name) ==
    {Path("in", <<>>, name), Path("in", <<SUB>>, name), Path("in", <<>>, N_TXT)}

SrcSets(name) == {S \in SUBSET SrcPaths(name) : Cardinality(S) <= MaxSrc}

Contents(hashes) == [size : Sizes, has_exif : BOOLEAN, hash : hashes]

\* a tree of source files: media files of any content, other files of one
SrcTrees(name, hashes) ==
    UNION {{[p \in S |->
                IF p.name = N_TXT THEN MkFile(p, 1, FALSE, None)
                ELSE MkFile(p, c[p].size, c[p].has_exif, c[p].hash)] :
                c \in {d \in [S -> Contents(hashes)] :
                        \A p \in S : p.name = N_TXT =>
                            d[p] = CHOOSE x \in Contents(hashes) : TRUE}} :
           S \in SrcSets(name)}

\* an archive tree: no file, or one file at the canonical path of its content
PhotoArchives ==
    {<<>>} \cup
    {LET f == MkFile(NoPath, c.size, c.has_exif, c.hash)
         t == PhotoTarget(f, Path("in", <<>>, A_JPG), c.has_exif)
     IN  (t :> [f EXCEPT !.origin = t]) : c \in Contents(Hashes)}

ZeroCounters ==
    [analyzed |-> 0, moved |-> 0, replaced |-> 0, removed_src |-> 0,
     skipped_no_exif |-> 0, skipped_no_hash |-> 0, skipped_duplicate |-> 0,
     skipped_metadata_error |-> 0, skipped_unexpected_error |-> 0]

\* the run has not started
RunInit ==
    /\ files = <<>>
    /\ idx = 1
    /\ pc = "start"
    /\ file_path = NoPath
    /\ target_file = NoPath
    /\ used_exif = TRUE
    /\ src_size = 0
    /\ dst_size = 0
    /\ counters = ZeroCounters
    /\ outcome = "NONE"
    /\ src_before = NoFile
    /\ dst_before = NoFile

SweepIdle ==
    /\ all_files = <<>>
    /\ files_by_hash = <<>>
    /\ grp = 1
    /\ to_move = <<>>
    /\ total_moved = 0
    /\ total_kept = 0
    /\ run = 0
    /\ fs_first = <<>>

NameIdle ==
    /\ nm_in = <<>>
    /\ nm_name = <<>>
    /\ nm_parsed = <<>>

RaceIdle ==
    /\ writers = <<>>
    /\ raced = FALSE

\* organize_photos(source, "out") is called on a source tree beside an
\* archive, or on the archive itself
InitPhoto ==
    /\ \E src \in {"in", "out"} :
       \E S \in SrcTrees(A_JPG, Hashes \cup {None}) :
       \E A \in PhotoArchives :
          /\ src = "out" => S = <<>>
          /\ source = src
          /\ fs = S @@ A
          /\ fs0 = S @@ A
    /\ dirs = {}
    /\ RunInit
    /\ SweepIdle
    /\ NameIdle
    /\ RaceIdle

(***************************************************************************)
(* organize_photos, step by step.                                          *)
(***************************************************************************)
Count(field) == counters' = [counters EXCEPT ![field] = @ + 1]

\* continue: on to the next element of files
NextItem == idx' = idx + 1 /\ pc' = "loop"

\* an item's try without its except: the exception ends the run
unexpected_error_ends_run(how) ==
    /\ Count("skipped_unexpected_error")
    /\ outcome' = how
    /\ pc' = "aborted"
    /\ UNCHANGED idx

\* lines 161-165: the except of the item's try
unexpected_error(how) ==
    /\ Count("skipped_unexpected_error")
    /\ outcome' = how
    /\ NextItem

\* line 57: files = list(source.rglob('*')), and line 76: exiftool is
\* started; both stand outside every try, and what they raise ends the run
scan ==
    /\ pc = "start"
    /\ \/ /\ \E order \in Perms(TreeOf(fs, source)) : files' = order
          /\ pc' = "loop"
       \/ /\ pc' = "aborted"
          /\ UNCHANGED files
    /\ UNCHANGED <<fsVars, idx, file_path, target_file, used_exif, src_size,
                   dst_size, counters, outcome, src_before, dst_before,
                   sweepVars, nameVars, raceVars>>

\* lines 78-79: a file of another extension is passed over
photo_skip ==
    /\ pc = "loop"
    /\ idx <= Len(files)
    /\ Lower(Suffix(files[idx].name)) \notin SUPPORTED_EXTENSIONS
    /\ idx' = idx + 1
    /\ UNCHANGED <<fsVars, files, pc, file_path, target_file, used_exif, src_size,
                   dst_size, counters, outcome, src_before, dst_before,
                   sweepVars, nameVars, raceVars>>

\* lines 80-81: analyzed += 1
photo_begin ==
    /\ pc = "loop"
    /\ idx <= Len(files)
    /\ Lower(Suffix(files[idx].name)) \in SUPPORTED_EXTENSIONS
    /\ file_path' = files[idx]
    /\ Count("analyzed")
    /\ outcome' = "NEW"
    /\ pc' = "metadata"
    /\ target_file' = NoPath
    /\ src_before' = NoFile
    /\ dst_before' = NoFile
    /\ UNCHANGED <<fsVars, files, idx, used_exif, src_size, dst_size,
                   sweepVars, nameVars, raceVars>>

\* line 167: the loop is over
finish ==
    /\ pc = "loop"
    /\ idx > Len(files)
    /\ pc' = "done"
    /\ UNCHANGED <<fsVars, files, idx, file_path, target_file, used_exif, src_size,
                   dst_size, counters, outcome, src_before, dst_before,
                   sweepVars, nameVars, raceVars>>

\* the metadata step without its continue: a failed read is counted and the
\* item then fails again further down
photo_metadata_no_continue ==
    /\ pc = "metadata"
    /\ \/ /\ counters' = [counters EXCEPT !.skipped_metadata_error = @ + 1,
                                          !.skipped_unexpected_error = @ + 1]
          /\ outcome' = "METADATA_ERROR"
          /\ NextItem
          /\ UNCHANGED used_exif
       \/ /\ file_path \in DOMAIN fs
          /\ used_exif' = extract_date(fs[file_path])[1]
          /\ pc' = "hash"
          /\ UNCHANGED <<idx, counters, outcome>>
    /\ UNCHANGED <<fsVars, files, file_path, target_file, src_size, dst_size,
                   src_before, dst_before, sweepVars, nameVars, raceVars>>

\* lines 83-101: the metadata is read (it cannot be, of a file that is gone),
\* then the date is taken from it (an exception of extract_date goes to the
\* except of line 161) or from file_path.stat()
photo_metadata ==
    /\ pc = "metadata"
    /\ \/ /\ Count("skipped_metadata_error")
          /\ outcome' = "METADATA_ERROR"
          /\ NextItem
          /\ UNCHANGED used_exif
       \/ /\ file_path \in DOMAIN fs
          /\ extract_date_raises(fs[file_path])
          /\ unexpected_error("DATE_ERROR")
          /\ UNCHANGED used_exif
       \/ /\ file_path \in DOMAIN fs
          /\ ~extract_date_raises(fs[file_path])
          /\ extract_date(fs[file_path])[1]
          /\ used_exif' = TRUE
          /\ pc' = "hash"
          /\ UNCHANGED <<idx, counters, outcome>>
       \/ /\ file_path \in DOMAIN fs
          /\ ~extract_date_raises(fs[file_path])
          /\ ~extract_date(fs[file_path])[1]
          /\ used_exif' = FALSE
          /\ pc' = "hash"
          /\ UNCHANGED <<idx, counters, outcome>>
       \/ /\ file_path \in DOMAIN fs
          /\ ~extract_date_raises(fs[file_path])
          /\ ~extract_date(fs[file_path])[1]
          /\ unexpected_error("ERROR")
          /\ UNCHANGED used_exif
    /\ UNCHANGED <<fsVars, files, file_path, target_file, src_size, dst_size,
                   src_before, dst_before, sweepVars, nameVars, raceVars>>

\* lines 103-104: image_hash = generate_image_hash(file_path)
photo_hash ==
    /\ pc = "hash"
    /\ pc' = IF Falsy(fs[file_path].hash) THEN "errors" ELSE "mkdir"
    /\ UNCHANGED <<fsVars, files, idx, file_path, target_file, used_exif, src_size,
                   dst_size, counters, outcome, src_before, dst_before,
                   sweepVars, nameVars, raceVars>>

\* lines 108-117: the file goes to errors/ under its own name; a move that
\* fails is printed, and the item is counted all the same
photo_errors ==
    /\ pc = "errors"
    /\ \/ /\ unexpected_error("ERROR")
          /\ UNCHANGED <<fs, dirs>>
       \/ /\ dirs' = dirs \cup {<<ERRORS>>}
          /\ fs' = Move(fs, file_path, Path("out", <<ERRORS>>, file_path.name))
          /\ Count("skipped_no_hash")
          /\ outcome' = "QUARANTINED"
          /\ NextItem
       \/ /\ dirs' = dirs \cup {<<ERRORS>>}
          /\ Count("skipped_no_hash")
          /\ outcome' = "QUARANTINE_FAILED"
          /\ NextItem
          /\ UNCHANGED fs
    /\ UNCHANGED <<fs0, source, files, file_path, target_file, used_exif, src_size,
                   dst_size, src_before, dst_before, sweepVars, nameVars, raceVars>>

\* lines 119-127: target_folder.mkdir(parents=True, exist_ok=True), target_file
photo_mkdir ==
    /\ pc = "mkdir"
    /\ \/ /\ dirs' = dirs \cup {PhotoFolder(fs[file_path], used_exif)}
          /\ target_file' = PhotoTarget(fs[file_path], file_path, used_exif)
          /\ pc' = "exists"
          /\ UNCHANGED <<idx, counters, outcome>>
       \/ /\ unexpected_error("ERROR")
          /\ UNCHANGED <<dirs, target_file>>
    /\ UNCHANGED <<fs, fs0, source, files, file_path, used_exif, src_size, dst_size,
                   src_before, dst_before, sweepVars, nameVars, raceVars>>

\* the move without the test of line 129
photo_exists_unchecked ==
    /\ pc = "exists"
    /\ pc' = "move"
    /\ UNCHANGED <<fsVars, files, idx, file_path, target_file, used_exif, src_size,
                   dst_size, counters, outcome, src_before, dst_before,
                   sweepVars, nameVars, raceVars>>

\* lines 129, 134: if not target_file.exists()
photo_exists ==
    /\ pc = "exists"
    /\ IF target_file \notin DOMAIN fs
       THEN /\ pc' = "move"
            /\ UNCHANGED <<src_before, dst_before>>
       ELSE /\ pc' = "stat"
            /\ src_before' = fs[file_path]
            /\ dst_before' = fs[target_file]
    /\ UNCHANGED <<fsVars, files, idx, file_path, target_file, used_exif, src_size,
                   dst_size, counters, outcome, sweepVars, nameVars, raceVars>>

\* lines 130-133: the canonical path is free
photo_move ==
    /\ pc = "move"
    /\ \/ /\ fs' = Move(fs, file_path, target_file)
          /\ Count("moved")
          /\ outcome' = "PLACED"
          /\ pc' = "tail"
          /\ UNCHANGED idx
       \/ /\ unexpected_error("ERROR")
          /\ UNCHANGED fs
    /\ UNCHANGED <<dirs, fs0, source, files, file_path, target_file, used_exif,
                   src_size, dst_size, src_before, dst_before, sweepVars, nameVars, raceVars>>

\* lines 136-138, 144, 149, 154-157: the two sizes are read and compared
photo_stat ==
    /\ pc = "stat"
    /\ \/ LET s == fs[file_path].size
              d == fs[target_file].size
          IN  /\ src_size' = s
              /\ dst_size' = d
              /\ IF SrcLarger(s, d)
                 THEN pc' = "replace" /\ UNCHANGED <<counters, outcome>>
                 ELSE IF s < d \/ s = d
                 THEN pc' = "remove" /\ UNCHANGED <<counters, outcome>>
                 ELSE /\ Count("skipped_duplicate")
                      /\ outcome' = "DUPLICATE"
                      /\ pc' = "tail"
              /\ UNCHANGED idx
       \/ /\ unexpected_error("CONFLICT_IO_ERROR")
          /\ UNCHANGED <<src_size, dst_size>>
    /\ UNCHANGED <<fsVars, files, file_path, target_file, used_exif,
                   src_before, dst_before, sweepVars, nameVars, raceVars>>

\* line 139: target_file.unlink()
photo_replace_unlink ==
    /\ pc = "replace"
    /\ \/ /\ fs' = Unlink(fs, target_file)
          /\ pc' = "replace_move"
          /\ UNCHANGED <<idx, counters, outcome>>
       \/ /\ unexpected_error("CONFLICT_IO_ERROR")
          /\ UNCHANGED fs
    /\ UNCHANGED <<dirs, fs0, source, files, file_path, target_file, used_exif,
                   src_size, dst_size, src_before, dst_before, sweepVars, nameVars, raceVars>>

\* lines 140-143: shutil.move(file_path, target_file); replaced += 1
photo_replace_move ==
    /\ pc = "replace_move"
    /\ \/ /\ file_path \in DOMAIN fs
          /\ fs' = Move(fs, file_path, target_file)
          /\ Count("replaced")
          /\ outcome' = "REPLACED"
          /\ pc' = "tail"
          /\ UNCHANGED idx
       \/ /\ unexpected_error("CONFLICT_IO_ERROR")
          /\ UNCHANGED fs
    /\ UNCHANGED <<dirs, fs0, source, files, file_path, target_file, used_exif,
                   src_size, dst_size, src_before, dst_before, sweepVars, nameVars, raceVars>>

\* lines 145-148 and 150-153: file_path.unlink(); removed_src += 1
photo_remove_src ==
    /\ pc = "remove"
    /\ \/ /\ fs' = Unlink(fs, file_path)
          /\ Count("removed_src")
          /\ outcome' = "REMOVED_SRC"
          /\ pc' = "tail"
          /\ UNCHANGED idx
       \/ /\ unexpected_error("CONFLICT_IO_ERROR")
          /\ UNCHANGED fs
    /\ UNCHANGED <<dirs, fs0, source, files, file_path, target_file, used_exif,
                   src_size, dst_size, src_before, dst_before, sweepVars, nameVars, raceVars>>

\* lines 159-160: if not used_exif: skipped_no_exif += 1
photo_tail ==
    /\ pc = "tail"
    /\ counters' = IF used_exif THEN counters
                   ELSE [counters EXCEPT !.skipped_no_exif = @ + 1]
    /\ NextItem
    /\ UNCHANGED <<fsVars, files, file_path, target_file, used_exif, src_size,
                   dst_size, outcome, src_before, dst_before, sweepVars, nameVars, raceVars>>

NextPhoto ==
    \/ scan
    \/ photo_skip
    \/ photo_begin
    \/ photo_metadata
    \/ photo_hash
    \/ photo_errors
    \/ photo_mkdir
    \/ photo_exists
    \/ photo_move
    \/ photo_stat
    \/ photo_replace_unlink
    \/ photo_replace_move
    \/ photo_remove_src
    \/ photo_tail
    \/ finish

SpecPhoto == InitPhoto /\ [][NextPhoto]_vars

(***************************************************************************)
(* organize_photos: the claims.                                            *)
(***************************************************************************)
\* the file f is stored somewhere in the tree
InFs(f) == \E p \in DOMAIN fs : fs[p] = f

\* the outcome counters of organize_photos, summed
PhotoOutcomes ==
    counters.moved + counters.replaced + counters.removed_src
    + counters.skipped_no_hash + counters.skipped_metadata_error
    + counters.skipped_unexpected_error + counters.skipped_duplicate

\* the canonical path of a file that has a fingerprint
Identity(f) == PhotoTarget(f, f.origin, extract_date(f)[1])

\* C1: when the canonical path of an incoming photo held another file and the
\* conflict was resolved (REPLACED or REMOVED_SRC), the canonical path holds a
\* file, the source path is gone, and of the two files exactly the winner is
\* left: the larger one, and the one that was there first when the sizes are
\* equal.
C1_ConflictKeepsLarger ==
    (outcome \in {"REPLACED", "REMOVED_SRC"} /\ file_path # target_file) =>
        LET winner == IF src_before.size > dst_before.size
                      THEN src_before ELSE dst_before
            loser  == IF src_before.size > dst_before.size
                      THEN dst_before ELSE src_before
        IN  /\ target_file \in DOMAIN fs
            /\ file_path \notin DOMAIN fs
            /\ fs[target_file] = winner
            /\ fs[target_file].size >= src_before.size
            /\ fs[target_file].size >= dst_before.size
            /\ ~InFs(loser)

\* C1, its case: a larger photo replaced a smaller one that the same run had
\* placed before it
C1_Witness ==
    /\ outcome = "REPLACED"
    /\ file_path # target_file
    /\ src_before.size > dst_before.size
    /\ dst_before.origin.root = "in"
    /\ fs[target_file] = src_before

\* C2: while a conflict between two files is resolved, one of them is gone
\* only when the canonical path is occupied (the loser is deleted after the
\* winner is in place).
C2_LoserDeletedAfterWinnerPlaced ==
    (dst_before # NoFile /\ file_path # target_file
        /\ (~InFs(src_before) \/ ~InFs(dst_before)))
    => target_file \in DOMAIN fs

\* C3: an item whose conflict resolution failed on a file system operation is
\* counted as an error and has lost neither file: the incoming file is still
\* at its source path and the other one at the canonical path.
C3_ConflictFailureDeletesNothing ==
    outcome = "CONFLICT_IO_ERROR" =>
        /\ counters.skipped_unexpected_error >= 1
        /\ file_path \in DOMAIN fs
        /\ fs[file_path] = src_before
        /\ target_file \in DOMAIN fs
        /\ fs[target_file] = dst_before

\* C4: in every state of a run (so wherever it may stop), every identity that
\* had a copy before the run still has one.
C4_NoIdentityLost ==
    \A p \in DOMAIN fs0 :
        ~Falsy(fs0[p].hash) =>
            \E q \in DOMAIN fs :
                ~Falsy(fs[q].hash) /\ Identity(fs[q]) = Identity(fs0[p])

\* C5: a run whose source is the archive itself, every file of it at its own
\* canonical path, leaves the tree as it was.
C5_RerunIsNoOp ==
    (source = "out" /\ \A p \in DOMAIN fs0 : Identity(fs0[p]) = p) => fs = fs0

\* C6: at the end of a run of organize_photos, analyzed is the sum of the
\* outcome counters: moved, replaced, removed_src, skipped_no_hash and the
\* three error counters.
C6_PhotoConservation ==
    pc = "done" => counters.analyzed = PhotoOutcomes

\* C6, its case: a finished run of two items, one placed and one failed
C6_Witness ==
    /\ pc = "done"
    /\ counters.analyzed = 2
    /\ counters.moved = 1
    /\ counters.skipped_unexpected_error + counters.skipped_metadata_error = 1

\* C23: a source file whose fingerprint cannot be made exists in every state
\* of the run, under errors/ or at its source path: a later item moved into
\* errors/ does not write over an earlier one of the same name.
C23_ErrorQuarantineKeepsAll ==
    \A p \in DOMAIN fs0 :
        (p.root = "in" /\ Falsy(fs0[p].hash)) => InFs(fs0[p])

\* in this step the file of the item leaves its source path and comes to lie
\* at q
ArrivesAt(q) ==
    /\ file_path \in DOMAIN fs
    /\ q # file_path
    /\ file_path \notin DOMAIN fs'
    /\ q \in DOMAIN fs'
    /\ fs'[q] = fs[file_path]

\* the three counts of the conflict stage against what the step does to the
\* tree: moved goes up exactly when the file arrives at a canonical path that
\* was found free, replaced exactly when it arrives at one that was found
\* occupied by a smaller file, removed_src exactly when the file is deleted
PlacementCountsFaithful ==
    /\ (counters'.moved = counters.moved + 1)
          <=> (ArrivesAt(target_file) /\ dst_before = NoFile)
    /\ (counters'.replaced = counters.replaced + 1)
          <=> (/\ ArrivesAt(target_file)
               /\ dst_before # NoFile
               /\ fs[file_path].size > dst_before.size)
    /\ (counters'.removed_src = counters.removed_src + 1)
          <=> (file_path \in DOMAIN fs /\ fs' = Unlink(fs, file_path))

\* C24: the summary of organize_photos is faithful to the tree, step by
\* step: each of moved, replaced and removed_src goes up by one exactly in
\* the step that places, replaces or deletes a file, and the count of
\* quarantined items (skipped_no_hash) exactly in the step in which the file
\* arrives under errors/; an item whose move to errors/ failed is not counted.
C24_SummaryFaithful ==
    [][/\ PlacementCountsFaithful
       /\ (counters'.skipped_no_hash = counters.skipped_no_hash + 1)
             <=> ArrivesAt(Path("out", <<ERRORS>>, file_path.name))]_vars

\* the steps of one call follow each other: the run does not stop halfway
SpecPhotoRuns == SpecPhoto /\ WF_vars(NextPhoto)

\* the files of the source tree whose extension organize_photos supports
SupportedPhotos ==
    {p \in TreeOf(fs0, source) : Lower(Suffix(p.name)) \in SUPPORTED_EXTENSIONS}

\* C15: whatever fails while an item is processed, the run of organize_photos
\* comes to its end with every supported file of the source tree analyzed;
\* a run that is ended by an exception has analyzed no item.
C15_RunAnalyzesEveryItem ==
    <>[](\/ pc = "done" /\ counters.analyzed = Cardinality(SupportedPhotos)
         \/ pc = "aborted" /\ counters.analyzed = 0)

\* C15, its case: the first of two items failed and the second was placed
C15_Witness ==
    /\ pc = "done"
    /\ counters.analyzed = 2
    /\ counters.skipped_unexpected_error = 1
    /\ counters.moved = 1
    /\ outcome = "PLACED"

\* the states of the state machine an item ends in
TerminalStates ==
    {"QUARANTINED", "PLACED", "REPLACED", "REMOVED_SRC", "CONFLICT_IO_ERROR"}

PHOTO_1 == Path("in", <<>>, A_JPG)
PHOTO_2 == Path("in", <<SUB>>, A_JPG)

ScenarioA ==
    /\ source = "in"
    /\ DOMAIN fs0 = {PHOTO_1, PHOTO_2}
    /\ ~Falsy(fs0[PHOTO_1].hash)
    /\ ~Falsy(fs0[PHOTO_2].hash)
    /\ Identity(fs0[PHOTO_1]) = Identity(fs0[PHOTO_2])
    /\ fs0[PHOTO_1].size # fs0[PHOTO_2].size
    /\ pc = "done"
    /\ counters.analyzed = 2
    /\ counters.skipped_unexpected_error = 0
    /\ counters.skipped_metadata_error = 0

ScenarioSmaller ==
    IF fs0[PHOTO_1].size < fs0[PHOTO_2].size THEN PHOTO_1 ELSE PHOTO_2

ScenarioLarger ==
    IF fs0[PHOTO_1].size < fs0[PHOTO_2].size THEN PHOTO_2 ELSE PHOTO_1

\* the smaller photo was listed, and so processed, before the larger one
SmallerFirst == files[1] = ScenarioSmaller

\* C17 as it was stated: in either processing order the larger file is at
\* the canonical path, the smaller one is nowhere, and replaced is 1.
C17_ScenarioAEitherOrder ==
    ScenarioA =>
        LET t == Identity(fs0[PHOTO_1])
        IN  /\ t \in DOMAIN fs
            /\ fs[t] = fs0[ScenarioLarger]
            /\ ~InFs(fs0[ScenarioSmaller])
            /\ counters.replaced = 1

\* C17: in either processing order the larger file is alone in the tree, at
\* the canonical path; when the smaller photo was processed first it was
\* placed and then replaced (moved 1, replaced 1, removed_src 0), and when
\* the larger one was first the smaller one was removed as the incoming
\* loser (moved 1, replaced 0, removed_src 1).
C17_ScenarioA ==
    ScenarioA =>
        LET t == Identity(fs0[PHOTO_1])
        IN  /\ DOMAIN fs = {t}
            /\ fs[t] = fs0[ScenarioLarger]
            /\ ~InFs(fs0[ScenarioSmaller])
            /\ counters.moved = 1
            /\ counters.replaced = (IF SmallerFirst THEN 1 ELSE 0)
            /\ counters.removed_src = (IF SmallerFirst THEN 0 ELSE 1)

\* C17, its case: the larger photo was processed first
C17_Witness ==
    /\ ScenarioA
    /\ ~SmallerFirst
    /\ counters.removed_src = 1
    /\ fs0[ScenarioLarger].size = MaxSize

(***************************************************************************)
(* organize_videos.                                                        *)
(***************************************************************************)
\* extract_video_date(metadata): <<found, seconds, ms>>, ms always 0
extract_video_date(f) ==
    IF DateScan(f.dates)[1] = "found"
    THEN <<TRUE, DateScan(f.dates)[2], 0>>
    ELSE <<FALSE, 0, 0>>

\* video_date and ms after the fallback to st_mtime
VideoDate(f) ==
    IF extract_video_date(f)[1]
    THEN <<extract_video_date(f)[2], extract_video_date(f)[3]>>
    ELSE <<MtimeSeconds(f), MtimeMs(f)>>

\* year / month of the date, as one directory per 30 days
MonthDir(seconds) == Str(seconds \div 2592000)

\* target_folder of organize_videos
VideoFolder(f, exif_used) ==
    <<IF exif_used THEN VIDEO_DATE ELSE VIDEO_NO_DATE, MonthDir(VideoDate(f)[1])>>

\* target_file of organize_videos for the file f found at path p
VideoTarget(f, p, exif_used) ==
    Path("out", VideoFolder(f, exif_used),
         VideoName(VideoDate(f)[1], VideoDate(f)[2], f.hash, Lower(Suffix(p.name))))

VideoArchives ==
    {<<>>} \cup
    {LET f == MkFile(NoPath, c.size, c.has_exif, c.hash)
         t == VideoTarget(f, Path("in", <<>>, V_MP4), c.has_exif)
     IN  (t :> [f EXCEPT !.origin = t]) : c \in Contents(Hashes)}

InitVideo ==
    /\ \E src \in {"in", "out"} :
       \E S \in SrcTrees(V_MP4, Hashes) :
       \E A \in VideoArchives :
          /\ src = "out" => S = <<>>
          /\ source = src
          /\ fs = S @@ A
          /\ fs0 = S @@ A
    /\ dirs = {}
    /\ RunInit
    /\ SweepIdle
    /\ NameIdle
    /\ RaceIdle

\* lines 51-52
video_skip ==
    /\ pc = "loop"
    /\ idx <= Len(files)
    /\ Lower(Suffix(files[idx].name)) \notin SUPPORTED_VIDEO_EXTENSIONS
    /\ idx' = idx + 1
    /\ UNCHANGED <<fsVars, files, pc, file_path, target_file, used_exif, src_size,
                   dst_size, counters, outcome, src_before, dst_before,
                   sweepVars, nameVars, raceVars>>

\* lines 53-54: analyzed += 1
video_begin ==
    /\ pc = "loop"
    /\ idx <= Len(files)
    /\ Lower(Suffix(files[idx].name)) \in SUPPORTED_VIDEO_EXTENSIONS
    /\ file_path' = files[idx]
    /\ Count("analyzed")
    /\ outcome' = "NEW"
    /\ pc' = "metadata"
    /\ target_file' = NoPath
    /\ src_before' = NoFile
    /\ dst_before' = NoFile
    /\ UNCHANGED <<fsVars, files, idx, used_exif, src_size, dst_size,
                   sweepVars, nameVars, raceVars>>

\* lines 56-73. When the metadata cannot be read, line 63 counts the item and
\* line 64, the name continueg, raises NameError inside the handler: the
\* except of line 102 catches it and counts the item again.
video_metadata ==
    /\ pc = "metadata"
    /\ \/ /\ counters' = [counters EXCEPT !.skipped_metadata_error = @ + 1,
                                          !.skipped_unexpected_error = @ + 1]
          /\ outcome' = "METADATA_ERROR"
          /\ NextItem
          /\ UNCHANGED used_exif
       \/ /\ file_path \in DOMAIN fs
          /\ DateScan(fs[file_path].dates)[1] = "raise"
          /\ unexpected_error("DATE_ERROR")
          /\ UNCHANGED used_exif
       \/ /\ file_path \in DOMAIN fs
          /\ extract_video_date(fs[file_path])[1]
          /\ used_exif' = TRUE
          /\ pc' = "mkdir"
          /\ UNCHANGED <<idx, counters, outcome>>
       \/ /\ file_path \in DOMAIN fs
          /\ DateScan(fs[file_path].dates)[1] = "none"
          /\ used_exif' = FALSE
          /\ pc' = "mkdir"
          /\ UNCHANGED <<idx, counters, outcome>>
       \/ /\ file_path \in DOMAIN fs
          /\ DateScan(fs[file_path].dates)[1] = "none"
          /\ unexpected_error("ERROR")
          /\ UNCHANGED used_exif
    /\ UNCHANGED <<fsVars, files, file_path, target_file, src_size, dst_size,
                   src_before, dst_before, sweepVars, nameVars, raceVars>>

\* lines 76-80: target_folder.mkdir(parents=True, exist_ok=True)
video_mkdir ==
    /\ pc = "mkdir"
    /\ \/ /\ dirs' = dirs \cup {VideoFolder(fs[file_path], used_exif)}
          /\ pc' = "hash"
          /\ UNCHANGED <<idx, counters, outcome>>
       \/ /\ unexpected_error("ERROR")
          /\ UNCHANGED dirs
    /\ UNCHANGED <<fs, fs0, source, files, file_path, target_file, used_exif,
                   src_size, dst_size, src_before, dst_before, sweepVars, nameVars, raceVars>>

\* lines 82-86: generate_file_hash(file_path), which raises when the file
\* cannot be read, and target_file
video_hash ==
    /\ pc = "hash"
    /\ \/ /\ target_file' = VideoTarget(fs[file_path], file_path, used_exif)
          /\ pc' = "exists"
          /\ UNCHANGED <<idx, counters, outcome>>
       \/ /\ unexpected_error("FINGERPRINT_FAILED")
          /\ UNCHANGED target_file
    /\ UNCHANGED <<fsVars, files, file_path, used_exif, src_size, dst_size,
                   src_before, dst_before, sweepVars, nameVars, raceVars>>

\* lines 88, 93: if not target_file.exists()
video_exists ==
    /\ pc = "exists"
    /\ IF target_file \notin DOMAIN fs
       THEN /\ pc' = "move"
            /\ UNCHANGED <<src_before, dst_before>>
       ELSE /\ pc' = "remove"
            /\ src_before' = fs[file_path]
            /\ dst_before' = fs[target_file]
    /\ UNCHANGED <<fsVars, files, idx, file_path, target_file, used_exif, src_size,
                   dst_size, counters, outcome, sweepVars, nameVars, raceVars>>

\* lines 89-92
video_move ==
    /\ pc = "move"
    /\ \/ /\ fs' = Move(fs, file_path, target_file)
          /\ Count("moved")
          /\ outcome' = "PLACED"
          /\ pc' = "tail"
          /\ UNCHANGED idx
       \/ /\ unexpected_error("ERROR")
          /\ UNCHANGED fs
    /\ UNCHANGED <<dirs, fs0, source, files, file_path, target_file, used_exif,
                   src_size, dst_size, src_before, dst_before, sweepVars, nameVars, raceVars>>

\* lines 94-98: file_path.unlink(); removed_src += 1
video_remove_src ==
    /\ pc = "remove"
    /\ \/ /\ fs' = Unlink(fs, file_path)
          /\ Count("removed_src")
          /\ outcome' = "REMOVED_SRC"
          /\ pc' = "tail"
          /\ UNCHANGED idx
       \/ /\ unexpected_error("CONFLICT_IO_ERROR")
          /\ UNCHANGED fs
    /\ UNCHANGED <<dirs, fs0, source, files, file_path, target_file, used_exif,
                   src_size, dst_size, src_before, dst_before, sweepVars, nameVars, raceVars>>

\* lines 100-101: if not used_exif: skipped_no_exif += 1
video_tail ==
    /\ pc = "tail"
    /\ counters' = IF used_exif THEN counters
                   ELSE [counters EXCEPT !.skipped_no_exif = @ + 1]
    /\ NextItem
    /\ UNCHANGED <<fsVars, files, file_path, target_file, used_exif, src_size,
                   dst_size, outcome, src_before, dst_before, sweepVars, nameVars, raceVars>>

NextVideo ==
    \/ scan
    \/ video_skip
    \/ video_begin
    \/ video_metadata
    \/ video_mkdir
    \/ video_hash
    \/ video_exists
    \/ video_move
    \/ video_remove_src
    \/ video_tail
    \/ finish

SpecVideo == InitVideo /\ [][NextVideo]_vars

\* the outcome counters of organize_videos, summed
VideoOutcomes ==
    counters.moved + counters.replaced + counters.removed_src
    + counters.skipped_metadata_error + counters.skipped_unexpected_error

\* C7: at the end of a run of organize_videos, analyzed is the sum of moved,
\* replaced, removed_src and the two error counters.
C7_VideoConservation ==
    pc = "done" => counters.analyzed = VideoOutcomes

\* C11: an item whose fingerprint could not be computed is, from then on,
\* stored unmodified under its own name in errors/ of the destination root
\* and gone from its source path, and it has not reached the conflict stage
\* (no canonical path was computed for it, no occupant was looked at).
C11_FingerprintFailureQuarantined ==
    (source = "in"
        /\ outcome \in {"FINGERPRINT_FAILED", "QUARANTINED", "QUARANTINE_FAILED"}) =>
        LET e == Path("out", <<ERRORS>>, file_path.name)
        IN  /\ e \in DOMAIN fs
            /\ fs[e] = fs0[file_path]
            /\ file_path \notin DOMAIN fs
            /\ target_file = NoPath
            /\ dst_before = NoFile

\* C20: in a run of organize_videos the replaced counter stays 0, every file
\* the archive held before the run is still at its path, unchanged, and an
\* item that found its canonical path occupied is gone from its source path
\* while the occupant is the file that was seen there, whatever the sizes.
C20_VideoKeepsExisting ==
    /\ counters.replaced = 0
    /\ \A p \in DOMAIN fs0 :
          p.root = "out" => (p \in DOMAIN fs /\ fs[p] = fs0[p])
    /\ outcome = "REMOVED_SRC" =>
          /\ file_path \notin DOMAIN fs
          /\ target_file \in DOMAIN fs
          /\ fs[target_file] = dst_before

(***************************************************************************)
(* remove_duplicate_files(root_folder = "out", duplicated_folder = "dup").  *)
(***************************************************************************)
IMG_1 == <<"I", "M", "G", "_", "1">> \o EXT_JPG

\* the two directories of the archive the model uses
DIR_1 == <<DATE, <<"0">>>>
DIR_2 == <<NO_DATE, <<"0">>>>

\* the places of an archive that may hold a file: canonical names of both
\* kinds (one of them in both directories), a camera's name in both
\* directories, and a name with no separator
SweepPaths ==
    {Path("out", d, PhotoName(MaxEpoch - 1, 0, h, EXT_JPG)) :
        d \in {DIR_1, DIR_2}, h \in Hashes}
    \cup {Path("out", DIR_1, PhotoName(MaxEpoch, 0, h, EXT_JPG)) : h \in Hashes}
    \cup {Path("out", DIR_2, VideoName(MaxEpoch, 0, h, EXT_MP4)) : h \in Hashes}
    \cup {Path("out", d, IMG_1) : d \in {DIR_1, DIR_2}}
    \cup {Path("out", DIR_1, N_TXT)}

\* the archive trees a sweep starts from
SweepTrees ==
    UNION {{[p \in S |-> MkFile(p, sz[p], FALSE, None)] :
                sz \in {z \in [S -> Sizes] : \A p \in S : p.name = N_TXT => z[p] = 1}} :
           S \in {X \in SUBSET SweepPaths : Cardinality(X) <= MaxSweep}}

InitSweep ==
    /\ \E T \in SweepTrees : fs = T /\ fs0 = T
    /\ source = "out"
    /\ dirs = {}
    /\ RunInit
    /\ all_files = <<>>
    /\ files_by_hash = <<>>
    /\ grp = 1
    /\ to_move = <<>>
    /\ total_moved = 0
    /\ total_kept = 0
    /\ run = 1
    /\ fs_first = <<>>
    /\ NameIdle
    /\ RaceIdle

\* files_by_hash.setdefault(key, []).append(member), the dict as the list of
\* its items in insertion order
SetDefaultAppend(groups, key, member) ==
    IF \E i \in 1..Len(groups) : groups[i].key = key
    THEN [i \in 1..Len(groups) |->
            IF groups[i].key = key
            THEN [groups[i] EXCEPT !.members = Append(@, member)]
            ELSE groups[i]]
    ELSE Append(groups, [key |-> key, members |-> <<member>>])

\* one step of sorted(): x goes behind the members whose timestamp string is
\* not greater than its own
SortedInsert(sorted, x) ==
    LET k == Cardinality({i \in 1..Len(sorted) : ~StrLess(x[2], sorted[i][2])})
    IN  SubSeq(sorted, 1, k) \o <<x>> \o SubSeq(sorted, k + 1, Len(sorted))

\* sorted(files, key=lambda x: x[1]): a stable sort by the timestamp string
RECURSIVE files_sorted(_)
files_sorted(members) ==
    IF members = <<>> THEN <<>>
    ELSE SortedInsert(files_sorted(SubSeq(members, 1, Len(members) - 1)),
                      members[Len(members)])

\* a to_move that holds only the second file of the group
ToMoveOnlySecond(sorted) ==
    IF Len(sorted) >= 2 THEN <<sorted[2][1]>> ELSE <<>>

\* to_move = [f[0] for f in files_sorted[1:]]
ToMove(sorted) == [i \in 1..(Len(sorted) - 1) |-> sorted[i + 1][1]]

sweepLocals == <<file_path, target_file, used_exif, src_size, dst_size, counters,
                 outcome, src_before, dst_before, files>>

\* line 52: all_files = list(root.rglob('*'))
sweep_list ==
    /\ pc = "start"
    /\ \E order \in Perms(TreeOf(fs, source)) : all_files' = order
    /\ idx' = 1
    /\ pc' = "group"
    /\ UNCHANGED <<fsVars, sweepLocals, files_by_hash, grp, to_move, total_moved,
                   total_kept, run, fs_first, nameVars, raceVars>>

\* lines 54-63: one file of the listing is parsed and put into its group; a
\* stat() that fails ends the run with its exception
sweep_group_file ==
    /\ pc = "group"
    /\ idx <= Len(all_files)
    /\ LET file      == all_files[idx]
           hash_part == extract_hash_from_filename(file.name)
           timestamp == extract_timestamp_from_filename(file.name)
       IN  \/ /\ file \notin DOMAIN fs \/ Falsy(hash_part) \/ Falsy(timestamp)
              /\ idx' = idx + 1
              /\ UNCHANGED <<pc, files_by_hash>>
           \/ /\ file \in DOMAIN fs /\ ~Falsy(hash_part) /\ ~Falsy(timestamp)
              /\ files_by_hash' =
                    SetDefaultAppend(files_by_hash, <<hash_part, fs[file].size>>,
                                     <<file, timestamp>>)
              /\ idx' = idx + 1
              /\ UNCHANGED pc
           \/ /\ file \in DOMAIN fs /\ ~Falsy(hash_part) /\ ~Falsy(timestamp)
              /\ pc' = "aborted"
              /\ UNCHANGED <<idx, files_by_hash>>
    /\ UNCHANGED <<fsVars, sweepLocals, all_files, grp, to_move, total_moved,
                   total_kept, run, fs_first, nameVars, raceVars>>

\* the grouping loop over a listing that is read as the loop goes (rglob
\* without list()): what has come into the tree meanwhile is listed too
sweep_grouped_lazy ==
    /\ pc = "group"
    /\ idx > Len(all_files)
    /\ LET unseen == {q \in TreeOf(fs, source) :
                        \A i \in 1..Len(all_files) : all_files[i] # q}
       IN  IF unseen # {}
           THEN /\ all_files' = Append(all_files, CHOOSE q \in unseen : TRUE)
                /\ UNCHANGED <<pc, grp>>
           ELSE /\ pc' = "groups"
                /\ grp' = 1
                /\ UNCHANGED all_files
    /\ UNCHANGED <<fsVars, sweepLocals, idx, files_by_hash, to_move,
                   total_moved, total_kept, run, fs_first, nameVars, raceVars>>

\* lines 64-69: the listing is through
sweep_grouped ==
    /\ pc = "group"
    /\ idx > Len(all_files)
    /\ pc' = "groups"
    /\ grp' = 1
    /\ UNCHANGED <<fsVars, sweepLocals, idx, all_files, files_by_hash, to_move,
                   total_moved, total_kept, run, fs_first, nameVars, raceVars>>

\* lines 70-72: a group of one file is passed over
sweep_skip_group ==
    /\ pc = "groups"
    /\ grp <= Len(files_by_hash)
    /\ Len(files_by_hash[grp].members) <= 1
    /\ grp' = grp + 1
    /\ UNCHANGED <<fsVars, sweepLocals, idx, pc, all_files, files_by_hash, to_move,
                   total_moved, total_kept, run, fs_first, nameVars, raceVars>>

\* lines 73-81: the group is sorted, and duplicated_dir made (a mkdir that
\* fails ends the run)
sweep_open_group ==
    /\ pc = "groups"
    /\ grp <= Len(files_by_hash)
    /\ Len(files_by_hash[grp].members) > 1
    /\ \/ /\ to_move' = ToMove(files_sorted(files_by_hash[grp].members))
          /\ dirs' = dirs \cup {<<files_by_hash[grp].key[1]>>}
          /\ pc' = "moving"
       \/ /\ pc' = "aborted"
          /\ UNCHANGED <<to_move, dirs>>
    /\ UNCHANGED <<fs, fs0, source, sweepLocals, idx, all_files, files_by_hash, grp,
                   total_moved, total_kept, run, fs_first, nameVars, raceVars>>

\* lines 82-86: shutil.move(f, duplicated_dir / f.name); there is no try
\* around it, so a move that fails ends the run
sweep_move ==
    /\ pc = "moving"
    /\ to_move # <<>>
    /\ LET f      == Head(to_move)
           target == Path("dup", <<files_by_hash[grp].key[1]>>, f.name)
       IN  \/ /\ f \in DOMAIN fs
              /\ fs' = Move(fs, f, target)
              /\ total_moved' = total_moved + 1
              /\ to_move' = Tail(to_move)
              /\ UNCHANGED pc
           \/ /\ pc' = "aborted"
              /\ UNCHANGED <<fs, total_moved, to_move>>
    /\ UNCHANGED <<dirs, fs0, source, sweepLocals, idx, all_files, files_by_hash,
                   grp, total_kept, run, fs_first, nameVars, raceVars>>

\* lines 87-88: total_kept += 1
sweep_keep ==
    /\ pc = "moving"
    /\ to_move = <<>>
    /\ total_kept' = total_kept + 1
    /\ grp' = grp + 1
    /\ pc' = "groups"
    /\ UNCHANGED <<fsVars, sweepLocals, idx, all_files, files_by_hash, to_move,
                   total_moved, run, fs_first, nameVars, raceVars>>

\* lines 89-91
sweep_done ==
    /\ pc = "groups"
    /\ grp > Len(files_by_hash)
    /\ pc' = "done"
    /\ UNCHANGED <<fsVars, sweepLocals, idx, all_files, files_by_hash, grp, to_move,
                   total_moved, total_kept, run, fs_first, nameVars, raceVars>>

\* lines 43-53: remove_duplicate_files is called again on what the first
\* run has left
sweep_again ==
    /\ pc = "done"
    /\ run = 1
    /\ run' = 2
    /\ fs_first' = fs
    /\ pc' = "start"
    /\ all_files' = <<>>
    /\ files_by_hash' = <<>>
    /\ grp' = 1
    /\ to_move' = <<>>
    /\ total_moved' = 0
    /\ total_kept' = 0
    /\ idx' = 1
    /\ UNCHANGED <<fsVars, sweepLocals, nameVars, raceVars>>

NextSweep ==
    \/ sweep_list
    \/ sweep_group_file
    \/ sweep_grouped
    \/ sweep_skip_group
    \/ sweep_open_group
    \/ sweep_move
    \/ sweep_keep
    \/ sweep_done
    \/ sweep_again

SpecSweep == InitSweep /\ [][NextSweep]_vars

(***************************************************************************)
(* remove_duplicate_files: the claims.                                     *)
(***************************************************************************)
\* the files of the archive the sweep parses: both parts of the name are there
Parsed(p) ==
    /\ ~Falsy(extract_hash_from_filename(p.name))
    /\ ~Falsy(extract_timestamp_from_filename(p.name))

\* the parsed files of the tree f that share fingerprint and size with p
GroupOf(f, p) ==
    {q \in TreeOf(f, "out") :
        /\ Parsed(q)
        /\ extract_hash_from_filename(q.name) = extract_hash_from_filename(p.name)
        /\ f[q].size = f[p].size}

\* the timestamp token of a canonical name, as a number
Token(p) == DigitsValue(extract_timestamp_from_filename(p.name))

\* the name follows <digits><separator><fingerprint><ext>
Canonical(p) ==
    Parsed(p) /\ IsDigits(extract_timestamp_from_filename(p.name))

\* C8: a second run of remove_duplicate_files over what a completed first run
\* has left moves no file: in every state of the second run the archive tree
\* and the quarantine tree are as the first run left them.
C8_SweepIdempotent ==
    run = 2 => (fs = fs_first /\ total_moved = 0)

\* C8, its case: the second run is through its groups, after a first run
\* that has moved two files of one group
C8_Witness ==
    /\ run = 2
    /\ pc = "done"
    /\ Cardinality(TreeOf(fs0, "out")) = Cardinality(TreeOf(fs, "out")) + 2
    /\ files_by_hash # <<>>

\* C9: after a sweep, of the canonical files of the archive that share
\* fingerprint and size exactly one is left in the archive, and its timestamp
\* token is numerically the smallest of the group.
C9_KeepsNumericallySmallest ==
    (run = 1 /\ pc = "done") =>
        \A p \in TreeOf(fs0, "out") :
            (Parsed(p) /\ \A q \in GroupOf(fs0, p) : Canonical(q)) =>
                /\ Cardinality(GroupOf(fs0, p) \cap DOMAIN fs) = 1
                /\ \A k \in GroupOf(fs0, p) \cap DOMAIN fs :
                       \A q \in GroupOf(fs0, p) : Token(k) <= Token(q)

\* C13: a file of the archive whose name is not <digits><separator>
\* <fingerprint><ext> is, in every state of a sweep, at the path it had,
\* unchanged.
C13_NonCanonicalUntouched ==
    \A p \in DOMAIN fs0 :
        ~Canonical(p) => (p \in DOMAIN fs /\ fs[p] = fs0[p])

\* C14: a relocation that fails does not end the sweep: the run is never
\* over with the file that could not be moved, and what was to follow it,
\* still waiting in to_move.
C14_MoveFailureDoesNotAbort ==
    ~(pc = "aborted" /\ to_move # <<>>)

\* where the sweep puts a member of a group: duplicated_base / hash_part /
\* f.name (lines 80, 83)
QuarantinePath(p) ==
    Path("dup", <<extract_hash_from_filename(p.name)>>, p.name)

\* C21: after a completed sweep, of every group with more than one member one
\* member (the retained one) is at its path in the archive, unchanged, and
\* each other member is gone from the archive and is the file at
\* dup/<fingerprint>/<its name>; a file of a group of one, and a file the
\* sweep does not parse, is at its path, unchanged; and the directories made
\* under dup are those of the fingerprints of groups with more than one member.
C21_SweepFrame ==
    (run = 1 /\ pc = "done") =>
        /\ \A p \in TreeOf(fs0, "out") :
              IF Parsed(p) /\ Cardinality(GroupOf(fs0, p)) > 1
              THEN /\ \E k \in GroupOf(fs0, p) :
                         /\ k \in DOMAIN fs /\ fs[k] = fs0[k]
                         /\ \A m \in GroupOf(fs0, p) \ {k} :
                                /\ m \notin DOMAIN fs
                                /\ QuarantinePath(m) \in DOMAIN fs
                                /\ fs[QuarantinePath(m)] = fs0[m]
              ELSE p \in DOMAIN fs /\ fs[p] = fs0[p]
        /\ dirs = {<<extract_hash_from_filename(p.name)>> :
                      p \in {q \in TreeOf(fs0, "out") :
                                Parsed(q) /\ Cardinality(GroupOf(fs0, q)) > 1}}

\* C21 read by paths only: the places are as the claim has them, whichever
\* file it is that lies at a place under dup
SweepPlaces ==
    (run = 1 /\ pc = "done") =>
        /\ \A p \in TreeOf(fs0, "out") :
              IF Parsed(p) /\ Cardinality(GroupOf(fs0, p)) > 1
              THEN /\ \E k \in GroupOf(fs0, p) :
                         /\ k \in DOMAIN fs /\ fs[k] = fs0[k]
                         /\ \A m \in GroupOf(fs0, p) \ {k} :
                                /\ m \notin DOMAIN fs
                                /\ QuarantinePath(m) \in DOMAIN fs
              ELSE p \in DOMAIN fs /\ fs[p] = fs0[p]
        /\ dirs = {<<extract_hash_from_filename(p.name)>> :
                      p \in {q \in TreeOf(fs0, "out") :
                                Parsed(q) /\ Cardinality(GroupOf(fs0, q)) > 1}}

\* C22: in every state of a sweep the archive tree and the quarantine tree
\* hold together as many files as the archive held before it: no relocation
\* writes over another file.
C22_SweepDestroysNothing ==
    Cardinality(TreeOf(fs, "out")) + Cardinality(TreeOf(fs, "dup"))
        = Cardinality(TreeOf(fs0, "out")) + Cardinality(TreeOf(fs0, "dup"))

(***************************************************************************)
(* A sweep of an archive that another process writes to.                   *)
(***************************************************************************)
\* the file that comes into the archive during the sweep: a canonical name
\* with the fingerprint of the files that are there
NEW_FILE == Path("out", DIR_2, PhotoName(MaxEpoch - 2, 0, <<"a", "f">>, EXT_JPG))

\* the archive the sweep starts from: canonical names only
LiveTrees == {T \in SweepTrees : \A p \in DOMAIN T : Canonical(p)}

InitSweepLive ==
    /\ InitSweep
    /\ fs \in LiveTrees

\* another process puts a file into the archive, after the listing of line
\* 52 was taken
file_appears ==
    /\ pc \in {"group", "groups", "moving"}
    /\ NEW_FILE \notin DOMAIN fs
    /\ \E size \in Sizes :
          fs' = fs @@ (NEW_FILE :>
                        MkFile(Path("new", NEW_FILE.dir, NEW_FILE.name),
                               size, FALSE, None))
    /\ UNCHANGED <<dirs, fs0, source, runVars, sweepVars, nameVars, raceVars>>

NextSweepLive ==
    \/ sweep_list
    \/ sweep_group_file
    \/ sweep_grouped
    \/ sweep_skip_group
    \/ sweep_open_group
    \/ sweep_move
    \/ sweep_keep
    \/ sweep_done
    \/ file_appears

SpecSweepLive == InitSweepLive /\ [][NextSweepLive]_vars

\* the path is in the listing or in a group
Listed(p) ==
    \/ \E i \in 1..Len(all_files) : all_files[i] = p
    \/ \E i \in 1..Len(files_by_hash) :
          \E j \in 1..Len(files_by_hash[i].members) :
             files_by_hash[i].members[j][1] = p

\* C19: a step taken while the sweep is listing or grouping moves no file
\* (the tree it started from is still there and total_moved is 0), and a
\* file that came into the archive after the listing is left where it is
\* by every step and is in neither the listing nor a group.
C19_SnapshotBeforeMoves ==
    [][/\ pc \in {"start", "group"} =>
            /\ total_moved' = 0
            /\ \A p \in DOMAIN fs0 : p \in DOMAIN fs' /\ fs'[p] = fs0[p]
       /\ \A p \in DOMAIN fs :
            fs[p].origin.root = "new" =>
                /\ p \in DOMAIN fs' /\ fs'[p] = fs[p]
                /\ ~Listed(p)'
      ]_vars

\* C19, its case: a sweep is through that has moved a file, and a file that
\* came in meanwhile, of the fingerprint and size of the group, is in place
C19_Witness ==
    /\ pc = "done"
    /\ total_moved >= 1
    /\ NEW_FILE \in DOMAIN fs
    /\ \E p \in DOMAIN fs0 :
          /\ p \notin DOMAIN fs
          /\ fs0[p].size = fs[NEW_FILE].size
          /\ extract_hash_from_filename(p.name)
                = extract_hash_from_filename(NEW_FILE.name)


(* sweep.                                                                  *)
(***************************************************************************)
\* ms is int(...[:3]) of extract_date or int(fraction * 1000): 0..999
Millis == 0..999

\* fingerprints are hexadecimal digests: letters, digits, or both
NameHashes == {<<"a", "f">>, <<"0", "1">>, <<"4", "e", "4">>}

\* what the engine builds a name from, for an image and for a video
NameInputs ==
    [kind : {"image"}, seconds : Epochs, ms : Millis, hash : NameHashes,
     ext : SUPPORTED_EXTENSIONS]
    \cup
    [kind : {"video"}, seconds : Epochs, ms : Millis, hash : NameHashes,
     ext : SUPPORTED_VIDEO_EXTENSIONS]

InitName ==
    /\ nm_in \in NameInputs
    /\ nm_name = <<>>
    /\ nm_parsed = <<>>
    /\ fs = <<>>
    /\ fs0 = <<>>
    /\ source = ""
    /\ dirs = {}
    /\ RunInit
    /\ SweepIdle
    /\ RaceIdle

\* photo-organizer.py line 127, video-organizer.py line 86
name_format ==
    /\ pc = "start"
    /\ nm_name' = IF nm_in.kind = "image"
                  THEN PhotoName(nm_in.seconds, nm_in.ms, nm_in.hash, nm_in.ext)
                  ELSE VideoName(nm_in.seconds, nm_in.ms, nm_in.hash, nm_in.ext)
    /\ pc' = "named"
    /\ UNCHANGED <<fsVars, files, idx, file_path, target_file, used_exif, src_size,
                   dst_size, counters, outcome, src_before, dst_before, sweepVars,
                   nm_in, nm_parsed, raceVars>>

\* remove_duplicates.py lines 57-58
name_parse ==
    /\ pc = "named"
    /\ nm_parsed' = <<extract_timestamp_from_filename(nm_name),
                      extract_hash_from_filename(nm_name)>>
    /\ pc' = "parsed"
    /\ UNCHANGED <<fsVars, files, idx, file_path, target_file, used_exif, src_size,
                   dst_size, counters, outcome, src_before, dst_before, sweepVars,
                   nm_in, nm_name, raceVars>>

NextName == name_format \/ name_parse

SpecName == InitName /\ [][NextName]_vars

\* C10: the name the engine builds from (seconds, ms, fingerprint, ext), with
\* either separator, parses back to the fingerprint and to a token that is
\* the digits of seconds (no leading zero) followed by three digits of ms.
C10_NameRoundTrip ==
    pc = "parsed" =>
        LET token == nm_parsed[1]
            n     == Len(token)
        IN  /\ nm_parsed[2] = nm_in.hash
            /\ token # None
            /\ IsDigits(token)
            /\ n >= 4
            /\ DigitsValue(SubSeq(token, 1, n - 3)) = nm_in.seconds
            /\ DigitsValue(SubSeq(token, n - 2, n)) = nm_in.ms
            /\ (n > 4 => token[1] # "0")

\* C10, its case: a video name with a two-digit second and a one-digit ms
\* has been parsed
C10_Witness ==
    /\ pc = "parsed"
    /\ nm_in.kind = "video"
    /\ nm_in.seconds = MaxEpoch
    /\ nm_in.ms = 7
    /\ nm_parsed[2] = <<"0", "1">>

(***************************************************************************)
(* The date of an item: organize_photos on one photo, over the metadata    *)
(* and the modification times a file may have.                             *)
(***************************************************************************)
\* what the date fields of a photo may hold: nothing, or DateTimeOriginal
\* alone, or DateTimeOriginal and CreateDate
DateLists ==
    LET kinds == {TextField, NumberField, DateField(MaxEpoch - 1)}
    IN  {<<>>} \cup {<<x>> : x \in kinds} \cup {<<x, y>> : x, y \in kinds}

\* fractions of st_mtime: none, 0.123 s (the double next to it), half a
\* second, and the last 2^-22 s of the second
MtimeFracs == {0, 515899, FracUnit \div 2, FracUnit - 1}

InitDate ==
    /\ \E dates \in DateLists, subsec \in {None, <<"5">>}, frac \in MtimeFracs :
          LET p == Path("in", <<>>, A_JPG)
              T == (p :> File(p, 1, dates, subsec, MaxEpoch, frac, <<"a", "f">>))
          IN  fs = T /\ fs0 = T
    /\ source = "in"
    /\ dirs = {}
    /\ RunInit
    /\ SweepIdle
    /\ NameIdle
    /\ RaceIdle

\* the steps of organize_photos an item takes on its way to a free path
NextDate ==
    \/ scan
    \/ photo_begin
    \/ photo_metadata
    \/ photo_hash
    \/ photo_mkdir
    \/ photo_exists
    \/ photo_move
    \/ photo_tail
    \/ finish

SpecDate == InitDate /\ [][NextDate]_vars

\* some date field of the metadata parses
Resolved(f) == \E i \in 1..Len(f.dates) : f.dates[i].kind = "date"

\* C12: no item is ended by the resolution of its date; the canonical path of
\* an item none of whose date fields parses is under no-date/, its name the
\* whole seconds of the modification time, the three digits of its
\* milliseconds, "-", the fingerprint and the extension; the canonical path
\* of an item with a date field that parses is under date/.
C12_FallbackDate ==
    /\ outcome # "DATE_ERROR"
    /\ target_file # NoPath =>
          LET f == fs0[file_path]
          IN  IF Resolved(f)
              THEN target_file.dir[1] = DATE
              ELSE /\ target_file.dir[1] = NO_DATE
                   /\ target_file.name =
                          Str(f.mtime) \o Pad3((f.mtime_frac * 125) \div (FracUnit \div 8))
                          \o <<"-">> \o f.hash \o Lower(Suffix(file_path.name))

(***************************************************************************)
(* Two writers: the placement step of organize_photos (lines 119-157) run  *)
(* by two processes at once, each on its own item, into one archive.       *)
(***************************************************************************)
Writers == {1, 2}

\* the item each writer has in hand
ItemOf(w) == IF w = 1 THEN PHOTO_1 ELSE PHOTO_2

\* a writer that has its item fingerprinted and is about to place it; the
\* counters are those of its own call
WriterInit(w) ==
    [pc |-> "mkdir", file_path |-> ItemOf(w), target_file |-> NoPath,
     moved |-> 0, replaced |-> 0, removed_src |-> 0,
     skipped_unexpected_error |-> 0, outcome |-> "NEW"]

\* two photos of one identity, of any sizes, and an empty archive
InitRace ==
    /\ \E s1, s2 \in Sizes, has_exif \in BOOLEAN :
          LET T == (PHOTO_1 :> MkFile(PHOTO_1, s1, has_exif, <<"a", "f">>))
                   @@ (PHOTO_2 :> MkFile(PHOTO_2, s2, has_exif, <<"a", "f">>))
          IN  fs = T /\ fs0 = T
    /\ source = "in"
    /\ dirs = {}
    /\ RunInit
    /\ SweepIdle
    /\ NameIdle
    /\ writers = [w \in Writers |-> WriterInit(w)]
    /\ raced = FALSE

raceFrame == <<fs0, source, runVars, sweepVars, nameVars>>

\* the except of lines 161-165, for a writer
WriterError(w) ==
    writers' = [writers EXCEPT ![w].skipped_unexpected_error = @ + 1,
                               ![w].outcome = "ERROR",
                               ![w].pc = "done"]

\* lines 119-127
race_mkdir(w) ==
    /\ writers[w].pc = "mkdir"
    /\ LET f == fs[writers[w].file_path]
           e == extract_date(f)[1]
       IN  /\ dirs' = dirs \cup {PhotoFolder(f, e)}
           /\ writers' = [writers EXCEPT
                  ![w].target_file = PhotoTarget(f, writers[w].file_path, e),
                  ![w].pc = "exists"]
    /\ UNCHANGED <<fs, raced, raceFrame>>

\* the move without the test of line 129, for a writer
race_exists_unchecked(w) ==
    /\ writers[w].pc = "exists"
    /\ writers' = [writers EXCEPT ![w].pc = "move"]
    /\ UNCHANGED <<fs, dirs, raced, raceFrame>>

\* lines 129, 134: if not target_file.exists()
race_exists(w) ==
    /\ writers[w].pc = "exists"
    /\ IF writers[w].target_file \notin DOMAIN fs
       THEN /\ writers' = [writers EXCEPT ![w].pc = "move"]
            /\ raced' = (raced \/ \E v \in Writers \ {w} :
                            /\ writers[v].pc = "move"
                            /\ writers[v].target_file = writers[w].target_file)
       ELSE /\ writers' = [writers EXCEPT ![w].pc = "stat"]
            /\ UNCHANGED raced
    /\ UNCHANGED <<fs, dirs, raceFrame>>

\* lines 130-133: shutil.move, which replaces what is at the path by now
race_move(w) ==
    /\ writers[w].pc = "move"
    /\ fs' = Move(fs, writers[w].file_path, writers[w].target_file)
    /\ writers' = [writers EXCEPT ![w].moved = @ + 1,
                                  ![w].outcome = "PLACED",
                                  ![w].pc = "done"]
    /\ UNCHANGED <<dirs, raced, raceFrame>>

\* lines 136-138, 144, 149: stat() of a path that is gone raises
race_stat(w) ==
    /\ writers[w].pc = "stat"
    /\ IF writers[w].target_file \in DOMAIN fs
       THEN writers' = [writers EXCEPT ![w].pc =
                IF SrcLarger(fs[writers[w].file_path].size,
                             fs[writers[w].target_file].size)
                THEN "replace" ELSE "remove"]
       ELSE WriterError(w)
    /\ UNCHANGED <<fs, dirs, raced, raceFrame>>

\* line 139
race_replace_unlink(w) ==
    /\ writers[w].pc = "replace"
    /\ IF writers[w].target_file \in DOMAIN fs
       THEN /\ fs' = Unlink(fs, writers[w].target_file)
            /\ writers' = [writers EXCEPT ![w].pc = "replace_move"]
       ELSE /\ WriterError(w)
            /\ UNCHANGED fs
    /\ UNCHANGED <<dirs, raced, raceFrame>>

\* lines 140-143
race_replace_move(w) ==
    /\ writers[w].pc = "replace_move"
    /\ fs' = Move(fs, writers[w].file_path, writers[w].target_file)
    /\ writers' = [writers EXCEPT ![w].replaced = @ + 1,
                                  ![w].outcome = "REPLACED",
                                  ![w].pc = "done"]
    /\ UNCHANGED <<dirs, raced, raceFrame>>

\* lines 145-148, 150-153
race_remove_src(w) ==
    /\ writers[w].pc = "remove"
    /\ fs' = Unlink(fs, writers[w].file_path)
    /\ writers' = [writers EXCEPT ![w].removed_src = @ + 1,
                                  ![w].outcome = "REMOVED_SRC",
                                  ![w].pc = "done"]
    /\ UNCHANGED <<dirs, raced, raceFrame>>

NextRace ==
    \E w \in Writers :
        \/ race_mkdir(w)
        \/ race_exists(w)
        \/ race_move(w)
        \/ race_stat(w)
        \/ race_replace_unlink(w)
        \/ race_replace_move(w)
        \/ race_remove_src(w)

SpecRace == InitRace /\ [][NextRace]_vars

\* both writers are through, an item's file is nowhere, and no writer has
\* counted a replacement or a removal
LostUncounted ==
    /\ \A w \in Writers : writers[w].pc = "done"
    /\ \E w \in Writers : ~InFs(fs0[ItemOf(w)])
    /\ \A w \in Writers : writers[w].replaced = 0 /\ writers[w].removed_src = 0

\* C18: with two writers, an item's file is lost without being counted as
\* replaced or removed exactly when both writers have seen the canonical
\* path free before either moved; writers that do not overlap between the
\* test and the move never lose a file this way.
C18_LostOnlyByRace ==
    (\A w \in Writers : writers[w].pc = "done") => (LostUncounted <=> raced)

\* C18, its case: both writers saw the path free and both moved; both count
\* their item as moved, and one file is left of the two
C18_Witness ==
    /\ raced
    /\ \A w \in Writers : writers[w].outcome = "PLACED" /\ writers[w].moved = 1
    /\ Cardinality(DOMAIN fs) = 1
    /\ LostUncounted

====
